---- MODULE Spec2Model ----
(***************************************************************************)
(* kitchen_sync database endpoints: ks_mysql.cpp and ks_postgresql.cpp.    *)
(* One client object on one connection: connect, start transaction,       *)
(* populate the schema through the row-callback listers, then serve        *)
(* retrieve_rows.  The database engine is the environment: it accepts or   *)
(* rejects statements and answers the catalog queries from `catalog`.      *)
(***************************************************************************)
EXTENDS Integers, Sequences, FiniteSets, TLC

VARIABLES
    engine,      \* "mysql" (ks_mysql.cpp) or "postgresql" (ks_postgresql.cpp)
    args,        \* constructor arguments [readonly, snapshot]
    server,      \* the engine's session: [version, next_isolation, txn,
                 \* foreign_key_checks, initially, constraints]
    catalog,     \* the engine's tables, in the order the table enumeration returns them
    data,        \* primary-key values of the rows stored in every table
    pc,          \* position of the client object in its life
    stack,       \* the active query() calls, innermost last
    wire,        \* rows of an unbuffered result not yet read from the connection (MySQL)
    outstanding, \* number of native result handles acquired and not yet freed
    table,       \* the Table under construction in the table lister
    unique_but_nullable_keys, \* side state of the key lister
    chosen_key,  \* per table of database.tables: the key taken as surrogate, "" if none
    lister_pc,   \* where the table lister callback stands between its nested queries
    database,    \* [tables, indexed]
    error,       \* text of the exception that left the last call, or NoError
    popped,      \* the query() calls that ended in the last step, innermost first
    rejected,    \* the statement the engine rejected in the failed call, with its diagnostic
    request,     \* the arguments of the retrieve_rows call under way
    before_disable \* the enforcement setting when referential integrity was last disabled

vars == <<before_disable, engine, args, server, catalog, data, pc, stack, wire, outstanding, table,
          unique_but_nullable_keys, chosen_key, lister_pc, database, error, popped,
          rejected, request>>

(***************************************************************************)
(* Bounds of the exploration.                                              *)
(***************************************************************************)
MaxIndexRows == 2   \* index-column entries (primary key and other keys) per table
MaxTables == 2      \* tables in a catalog of the client life-cycle specification
MaxKey == 3         \* row keys are 1..MaxKey

MYSQL_5_6_5 == 50605

(***************************************************************************)
(* Sequences.                                                              *)
(***************************************************************************)
Range(s) == {s[i] : i \in DOMAIN s}

SeqsUpTo(S, n) == UNION {[1..k -> S] : k \in 0..n}

Injective(s) == \A i, j \in DOMAIN s : s[i] = s[j] => i = j

IsPrefix(s, t) == Len(s) <= Len(t) /\ \A i \in 1..Len(s) : s[i] = t[i]

\* all orders in which the elements of s can arrive
ArrivalOrders(s) ==
    {[i \in 1..Len(s) |-> s[p[i]]] : p \in {q \in [1..Len(s) -> 1..Len(s)] : Injective(q)}}

RECURSIVE Flatten(_)
Flatten(ss) == IF ss = <<>> THEN <<>> ELSE Head(ss) \o Flatten(Tail(ss))

RECURSIVE SumLen(_)
SumLen(ss) == IF ss = <<>> THEN 0 ELSE Len(Head(ss)) + SumLen(Tail(ss))

PositionIn(s, x) == CHOOSE i \in DOMAIN s : s[i] = x

Min(S) == CHOOSE x \in S : \A y \in S : x <= y

RECURSIVE Ascending(_)
Ascending(S) == IF S = {} THEN <<>> ELSE <<Min(S)>> \o Ascending(S \ {Min(S)})

FirstN(s, n) == SubSeq(s, 1, IF n < Len(s) THEN n ELSE Len(s))

(***************************************************************************)
(* The engine's catalog.  A table of the engine has columns, an optional   *)
(* PRIMARY KEY constraint `pk`, the columns `fk` under foreign-key         *)
(* constraints (none or one here), further indexes `keys` and the set      *)
(* `nullable` of columns that permit NULL.  Key names are compared by      *)
(* their rank in KeyNames.                                                 *)
(***************************************************************************)
KeyNames == <<"idx_a", "idx_b">>

SessionColumns == <<"token", "user_id", "device_id">>

KeyDefs(columns) ==
    {[name |-> n, unique |-> u, columns |-> c] :
        n \in Range(KeyNames), u \in BOOLEAN,
        c \in {q \in SeqsUpTo(Range(columns), MaxIndexRows) : q # <<>> /\ Injective(q)}}

IndexRows(ks) == SumLen([i \in DOMAIN ks |-> ks[i].columns])

KeyLists(columns) ==
    {ks \in SeqsUpTo(KeyDefs(columns), Len(KeyNames)) :
        /\ \A i, j \in DOMAIN ks : ks[i].name = ks[j].name => i = j
        /\ IndexRows(ks) <= MaxIndexRows}

\* every shape of a table `name` within the bounds.  A primary-key column is NOT NULL.
RichTables(name, columns) ==
    LET lists == KeyLists(columns)
    IN  UNION {
            {[name |-> name, columns |-> columns, pk |-> p, fk |-> f,
              keys |-> ks, nullable |-> nl] :
                f \in {{}} \cup {{c} : c \in Range(columns)},
                ks \in {k \in lists : Len(p) + IndexRows(k) <= MaxIndexRows},
                nl \in SUBSET (Range(columns) \ Range(p))} :
            p \in {q \in SeqsUpTo(Range(columns), MaxIndexRows) : Injective(q)}}

\* the tables of the client life-cycle specification
OrdersTable ==
    [name |-> "orders", columns |-> <<"id", "customer_id", "total">>,
     pk |-> <<"id">>, fk |-> {"customer_id"}, keys |-> <<>>, nullable |-> {"total"}]

SessionsTable ==
    [name |-> "sessions", columns |-> SessionColumns, pk |-> <<>>, fk |-> {},
     keys |-> <<[name |-> "idx_a", unique |-> TRUE, columns |-> <<"token">>],
                [name |-> "idx_b", unique |-> TRUE, columns |-> <<"user_id", "device_id">>]>>,
     nullable |-> {"token"}]

LogsTable ==
    [name |-> "logs", columns |-> <<"at", "line">>, pk |-> <<>>, fk |-> {},
     keys |-> <<[name |-> "idx_a", unique |-> FALSE, columns |-> <<"at">>]>>,
     nullable |-> {}]

\* a unique key named like the nullable unique key of sessions
DevicesTable ==
    [name |-> "devices", columns |-> <<"serial", "model">>, pk |-> <<>>, fk |-> {},
     keys |-> <<[name |-> "idx_a", unique |-> TRUE, columns |-> <<"serial">>]>>,
     nullable |-> {"model"}]

SmallCatalogs ==
    {c \in SeqsUpTo({OrdersTable, SessionsTable, LogsTable, DevicesTable}, MaxTables) :
        Injective(c)}

\* one table of every shape, and the tables above
RichCatalogs(name, columns) ==
    {<<t>> : t \in RichTables(name, columns) \cup {OrdersTable, SessionsTable, LogsTable}}

CatalogTable(name) == CHOOSE t \in Range(catalog) : t.name = name

(***************************************************************************)
(* Statement texts.  A text is a sequence of pieces; + on strings is \o.   *)
(***************************************************************************)
MySQLTablesSql ==
    <<"SELECT table_name FROM information_schema.tables WHERE table_schema = schema() ORDER BY data_length DESC, table_name ASC">>

MySQLColumnsSql(name) == <<"SHOW COLUMNS FROM ">> \o <<name>>

MySQLKeysSql(name) == <<"SHOW KEYS FROM ">> \o <<name>>

PostgreSQLTablesSql ==
    <<"SELECT tablename FROM pg_tables WHERE schemaname = ANY (current_schemas(false)) ORDER BY pg_relation_size(tablename::text) DESC, tablename ASC">>

PostgreSQLColumnsSql(name) ==
    <<"SELECT attname FROM pg_attribute, pg_class WHERE attrelid = pg_class.oid AND attnum > 0 AND NOT attisdropped AND relname = '">>
        \o <<name>> \o <<"' ORDER BY attnum">>

PostgreSQLPrimaryKeySql(name) ==
    <<"SELECT column_name FROM information_schema.table_constraints, information_schema.key_column_usage WHERE information_schema.table_constraints.table_name = '">>
        \o <<name>>
        \o <<"' AND information_schema.key_column_usage.table_name = information_schema.table_constraints.table_name AND constraint_type = 'PRIMARY KEY' ORDER BY ordinal_position">>

PostgreSQLKeysSql(name) ==
    <<"SELECT index_class.relname, pg_index.indisunique, attname, attnotnull FROM pg_class table_class JOIN pg_index ON table_class.oid = pg_index.indrelid JOIN pg_class index_class ON pg_index.indexrelid = index_class.oid AND index_class.relkind = 'i' JOIN pg_attribute ON table_class.oid = pg_attribute.attrelid AND pg_attribute.attnum = ANY(indkey) WHERE table_class.relname = '">>
        \o <<name>> \o <<"' AND NOT pg_index.indisprimary">>

\* the ranged scan: rows after prev_key in primary-key order, at most row_count of them
retrieve_rows_sql(tbl, prev_key, row_count) ==
    <<"SELECT * FROM ">> \o <<tbl.name>> \o <<" WHERE key > ">> \o <<prev_key>>
        \o <<" ORDER BY key LIMIT ">> \o <<row_count>>

(***************************************************************************)
(* The engine's answers: the row sequences it may return for a statement.  *)
(***************************************************************************)
TableRows == [i \in DOMAIN catalog |-> <<catalog[i].name>>]

ColumnRows(t) == [i \in DOMAIN t.columns |-> <<t.columns[i]>>]

\* SHOW KEYS: Table, Non_unique, Key_name, Seq_in_index, Column_name, Collation,
\* Cardinality, Sub_part, Packed, Null; one row per index column, index by index
MySQLKeyRow(t, key_name, unique, column) ==
    <<t.name, IF unique THEN "0" ELSE "1", key_name, "", column, "A", "", "", "",
      IF column \in t.nullable THEN "YES" ELSE "">>

MySQLKeyRows(t) ==
    [i \in DOMAIN t.pk |-> MySQLKeyRow(t, "PRIMARY", TRUE, t.pk[i])]
        \o Flatten([k \in DOMAIN t.keys |->
                [i \in DOMAIN t.keys[k].columns |->
                    MySQLKeyRow(t, t.keys[k].name, t.keys[k].unique, t.keys[k].columns[i])]])

\* relname, indisunique, attname, attnotnull; the statement asks for no order
PostgreSQLKeyRow(t, key, column) ==
    <<key.name, IF key.unique THEN "t" ELSE "f", column,
      IF column \in t.nullable THEN "f" ELSE "t">>

PostgreSQLKeyAnswers(t) ==
    ArrivalOrders(Flatten([k \in DOMAIN t.keys |->
        [i \in DOMAIN t.keys[k].columns |->
            PostgreSQLKeyRow(t, t.keys[k], t.keys[k].columns[i])]]))

\* information_schema.key_column_usage: a row per column of every primary-key,
\* unique or foreign-key constraint of the table, with its position in the constraint
ForeignKeyColumns(t) ==
    LET at == Ascending({PositionIn(t.columns, c) : c \in t.fk})
    IN  [i \in DOMAIN at |-> t.columns[at[i]]]

KeyColumnUsage(t) ==
    [i \in DOMAIN t.pk |-> [column_name |-> t.pk[i], ordinal_position |-> i]]
        \o [i \in DOMAIN ForeignKeyColumns(t) |->
                [column_name |-> ForeignKeyColumns(t)[i], ordinal_position |-> 1]]

\* the join pairs the table's PRIMARY KEY constraint row with every
\* key_column_usage row of the same table_name, ordered by ordinal_position
PostgreSQLPrimaryKeyAnswers(t) ==
    IF t.pk = <<>> THEN {<<>>}
    ELSE {[i \in DOMAIN o |-> <<o[i].column_name>>] :
            o \in {q \in ArrivalOrders(KeyColumnUsage(t)) :
                    \A i, j \in DOMAIN q :
                        i < j => q[i].ordinal_position <= q[j].ordinal_position}}

RowsAfter(prev_key, row_count) ==
    LET after == Ascending({k \in data : k > prev_key})
    IN  [i \in DOMAIN FirstN(after, row_count) |-> <<after[i]>>]

Answers(sql) ==
    CASE sql = MySQLTablesSql \/ sql = PostgreSQLTablesSql -> {TableRows}
      [] sql[1] = MySQLColumnsSql("")[1] \/ sql[1] = PostgreSQLColumnsSql("")[1] ->
            {ColumnRows(CatalogTable(sql[2]))}
      [] sql[1] = MySQLKeysSql("")[1] -> {MySQLKeyRows(CatalogTable(sql[2]))}
      [] sql[1] = PostgreSQLPrimaryKeySql("")[1] -> PostgreSQLPrimaryKeyAnswers(CatalogTable(sql[2]))
      [] sql[1] = PostgreSQLKeysSql("")[1] -> PostgreSQLKeyAnswers(CatalogTable(sql[2]))
      [] sql[1] = "SELECT * FROM " -> {RowsAfter(sql[4], sql[6])}

(***************************************************************************)
(* The engine's session: what the transaction statements do to it.         *)
(***************************************************************************)
NoTransaction == [active |-> FALSE, isolation |-> "", read_only |-> FALSE]

\* foreign_key_checks is the MySQL session variable; `initially` is the mode the
\* deferrable constraints are declared with (PostgreSQL) and `constraints` their
\* mode in the running transaction
NewServer(version, foreign_key_checks, initially) ==
    [version |-> version, next_isolation |-> "", txn |-> NoTransaction,
     foreign_key_checks |-> foreign_key_checks, initially |-> initially,
     constraints |-> initially]

\* MySQL starts a transaction at the level of the last SET TRANSACTION, or at
\* its default level REPEATABLE READ
MySQLStart(srv, read_only) ==
    [srv EXCEPT !.next_isolation = "",
                !.txn = [active |-> TRUE,
                         isolation |-> IF srv.next_isolation = "" THEN "REPEATABLE READ"
                                       ELSE srv.next_isolation,
                         read_only |-> read_only]]

PostgreSQLStart(srv, isolation, read_only) ==
    [srv EXCEPT !.txn = [active |-> TRUE, isolation |-> isolation, read_only |-> read_only],
                !.constraints = srv.initially]

\* statements the engine cannot parse: START TRANSACTION READ ONLY before MySQL 5.6.5
Understands(srv, sql) ==
    sql = <<"START TRANSACTION READ ONLY">> => srv.version >= MYSQL_5_6_5

Apply(srv, sql) ==
    CASE sql = <<"SET TRANSACTION ISOLATION LEVEL REPEATABLE READ">> ->
            [srv EXCEPT !.next_isolation = "REPEATABLE READ"]
      [] sql = <<"SET TRANSACTION ISOLATION LEVEL READ COMMITTED">> ->
            [srv EXCEPT !.next_isolation = "READ COMMITTED"]
      [] sql = <<"START TRANSACTION READ ONLY">> -> MySQLStart(srv, TRUE)
      [] sql = <<"START TRANSACTION">> -> MySQLStart(srv, FALSE)
      [] sql = <<"START TRANSACTION READ ONLY ISOLATION LEVEL REPEATABLE READ">> ->
            PostgreSQLStart(srv, "REPEATABLE READ", TRUE)
      [] sql = <<"START TRANSACTION ISOLATION LEVEL REPEATABLE READ">> ->
            PostgreSQLStart(srv, "REPEATABLE READ", FALSE)
      [] sql = <<"START TRANSACTION READ ONLY ISOLATION LEVEL READ COMMITTED">> ->
            PostgreSQLStart(srv, "READ COMMITTED", TRUE)
      [] sql = <<"START TRANSACTION ISOLATION LEVEL READ COMMITTED">> ->
            PostgreSQLStart(srv, "READ COMMITTED", FALSE)
      [] sql = <<"COMMIT">> ->
            [srv EXCEPT !.txn = NoTransaction, !.constraints = srv.initially]
      [] sql = <<"SET foreign_key_checks = 0">> -> [srv EXCEPT !.foreign_key_checks = 0]
      [] sql = <<"SET foreign_key_checks = 1">> -> [srv EXCEPT !.foreign_key_checks = 1]
      \* SET CONSTRAINTS lasts to the end of the transaction, and does nothing outside one
      [] sql = <<"SET CONSTRAINTS ALL DEFERRED">> ->
            IF srv.txn.active THEN [srv EXCEPT !.constraints = "DEFERRED"] ELSE srv
      [] OTHER -> srv

\* diagnostics the engine gives when it rejects a statement or loses the connection
Diagnostics == {<<"You have an error in your SQL syntax">>, <<"Lost connection to server">>}

NoError == <<>>

\* the library's message when it cannot allocate a result
OutOfMemory == <<"out of memory">>

NoRejection == [diagnostic |-> <<>>, sql |-> <<>>]

NoRequest == [table |-> "", prev_key |-> 0, row_count |-> 0]

(***************************************************************************)
(* schema.h: the schema model the listers fill.                            *)
(***************************************************************************)
Table(name) == [name |-> name, columns |-> <<>>, primary_key_columns |-> <<>>, keys |-> <<>>]

Key(name, unique) == [name |-> name, unique |-> unique, columns |-> <<>>]

NoTable == Table("")

Column(name) == [name |-> name]

\* position of the named column in the table's columns, counted from 0
index_of_column(tbl, column_name) ==
    (CHOOSE i \in DOMAIN tbl.columns : tbl.columns[i].name = column_name) - 1

KeyLess(a, b) == PositionIn(KeyNames, a.name) < PositionIn(KeyNames, b.name)

\* std::sort leaves the order of equal elements open
sort(keys) ==
    {o \in ArrivalOrders(keys) : \A i, j \in DOMAIN o : i < j => ~KeyLess(o[j], o[i])}

string_at(row, column_number) == row[column_number + 1]

(***************************************************************************)
(* The listers: row callbacks.  A key lister works on the pair             *)
(* [table, unique_but_nullable_keys].                                      *)
(***************************************************************************)
MySQLColumnLister(tbl, row) ==
    [tbl EXCEPT !.columns = Append(@, Column(string_at(row, 0)))]

PostgreSQLColumnLister(tbl, row) ==
    [tbl EXCEPT !.columns = Append(@, Column(string_at(row, 0)))]

PostgreSQLPrimaryKeyLister(tbl, row) ==
    LET column_name == string_at(row, 0)
        column_index == index_of_column(tbl, column_name)
    IN  [tbl EXCEPT !.primary_key_columns = Append(@, column_index)]

\* the grouping step without the test of keys.back().name: a Key per row
PushKeyColumn_KeyPerRow(keys, key_name, unique, column_index) ==
    LET ks == Append(keys, Key(key_name, unique))
    IN  [ks EXCEPT ![Len(ks)].columns = Append(@, column_index)]

\* keys.back() of the shared grouping step of both key listers
PushKeyColumn(keys, key_name, unique, column_index) ==
    LET ks == IF keys = <<>> \/ keys[Len(keys)].name # key_name
              THEN Append(keys, Key(key_name, unique))
              ELSE keys
    IN  [ks EXCEPT ![Len(ks)].columns = Append(@, column_index)]

MySQLKeyLister(l, row) ==
    LET unique == (string_at(row, 1) = "0")
        key_name == string_at(row, 2)
        column_name == string_at(row, 4)
        column_index == index_of_column(l.table, column_name)
        nullable == string_at(row, 9)
    IN  IF key_name = "PRIMARY"
        THEN [l EXCEPT !.table.primary_key_columns = Append(@, column_index)]
        ELSE [table |-> [l.table EXCEPT !.keys = PushKeyColumn(@, key_name, unique, column_index)],
              unique_but_nullable_keys |->
                  IF l.table.primary_key_columns = <<>> /\ unique /\ nullable = "YES"
                  THEN l.unique_but_nullable_keys \cup {key_name}
                  ELSE l.unique_but_nullable_keys]

PostgreSQLKeyLister(l, row) ==
    LET key_name == string_at(row, 0)
        unique == (string_at(row, 1) = "t")
        column_name == string_at(row, 2)
        column_index == index_of_column(l.table, column_name)
        nullable == (string_at(row, 3) = "f")
    IN  [table |-> [l.table EXCEPT !.keys = PushKeyColumn(@, key_name, unique, column_index)],
         unique_but_nullable_keys |->
             IF l.table.primary_key_columns = <<>> /\ unique /\ nullable
             THEN l.unique_but_nullable_keys \cup {key_name}
             ELSE l.unique_but_nullable_keys]

\* the loop without the test of unique_but_nullable_keys
RECURSIVE SurrogateLoop_IgnoresNullable(_, _, _, _, _)
SurrogateLoop_IgnoresNullable(keys, i, primary_key_columns, nullable_keys, chosen) ==
    IF i > Len(keys) \/ primary_key_columns # <<>>
    THEN [primary_key_columns |-> primary_key_columns, chosen |-> chosen]
    ELSE IF keys[i].unique
         THEN SurrogateLoop_IgnoresNullable(keys, i + 1, keys[i].columns, nullable_keys,
                                            keys[i].name)
         ELSE SurrogateLoop_IgnoresNullable(keys, i + 1, primary_key_columns, nullable_keys,
                                            chosen)

\* the loop over the sorted keys: the first unique key not marked nullable
RECURSIVE SurrogateLoop(_, _, _, _, _)
SurrogateLoop(keys, i, primary_key_columns, nullable_keys, chosen) ==
    IF i > Len(keys) \/ primary_key_columns # <<>>
    THEN [primary_key_columns |-> primary_key_columns, chosen |-> chosen]
    ELSE IF keys[i].unique /\ keys[i].name \notin nullable_keys
         THEN SurrogateLoop(keys, i + 1, keys[i].columns, nullable_keys, keys[i].name)
         ELSE SurrogateLoop(keys, i + 1, primary_key_columns, nullable_keys, chosen)

\* sort the keys, then derive the surrogate primary key: every outcome the sort allows
SurrogatePrimaryKey(tbl, nullable_keys) ==
    {[table |-> [tbl EXCEPT !.keys = sorted,
                            !.primary_key_columns =
                                SurrogateLoop(sorted, 1, tbl.primary_key_columns,
                                              nullable_keys, "").primary_key_columns],
      chosen |-> SurrogateLoop(sorted, 1, tbl.primary_key_columns, nullable_keys, "").chosen] :
        sorted \in sort(tbl.keys)}

SchemaErrorText(tbl) ==
    <<"Couldn't find a primary or non-nullable unique key on table ">> \o <<tbl.name>>

(***************************************************************************)
(* Result handles.  A frame of `stack` is one running query() call.        *)
(***************************************************************************)
\* mysql_store_result reads every row waiting on the connection into the handle,
\* mysql_use_result leaves them there; mysql_num_rows counts the rows read so far
MySQLRes(sql, handler, w, answer, buffer) ==
    [frame |-> [sql |-> sql, handler |-> handler, buffer |-> buffer, res |-> TRUE,
                stored |-> IF buffer THEN w \o answer ELSE <<>>,
                n_tuples |-> IF buffer THEN Len(w \o answer) ELSE 0,
                pos |-> 0, expected |-> answer, delivered |-> <<>>],
     wire |-> IF buffer THEN <<>> ELSE w \o answer]

\* libpq hands over the whole result
PostgreSQLRes(sql, handler, answer) ==
    [sql |-> sql, handler |-> handler, buffer |-> TRUE, res |-> TRUE,
     stored |-> answer, n_tuples |-> Len(answer),
     pos |-> 0, expected |-> answer, delivered |-> <<>>]

RECURSIVE Drain(_)
Drain(w) == IF w = <<>> THEN w ELSE Drain(Tail(w))

\* the destructor freeing without fetching the rows left
MySQLResDtor_NoDrain(f, w) ==
    IF f.res
    THEN [wire |-> w, frees |-> 1,
          unread |-> IF f.buffer THEN Len(f.stored) - f.pos ELSE Len(w)]
    ELSE [wire |-> w, frees |-> 0, unread |-> 0]

\* ~MySQLRes: fetch the rows left, then free
MySQLResDtor(f, w) ==
    IF f.res
    THEN [wire |-> IF f.buffer THEN w ELSE Drain(w), frees |-> 1,
          unread |-> IF f.buffer THEN Len(f.stored) - f.pos ELSE Len(w)]
    ELSE [wire |-> w, frees |-> 0, unread |-> 0]

\* the destructor without PQclear
PostgreSQLResDtor_NoClear(f, w) ==
    [wire |-> w, frees |-> 0, unread |-> IF f.res THEN f.n_tuples - f.pos ELSE 0]

\* ~PostgreSQLRes: PQclear
PostgreSQLResDtor(f, w) ==
    IF f.res
    THEN [wire |-> w, frees |-> 1, unread |-> f.n_tuples - f.pos]
    ELSE [wire |-> w, frees |-> 0, unread |-> 0]

Dtor(f, w) == IF engine = "mysql" THEN MySQLResDtor(f, w) ELSE PostgreSQLResDtor(f, w)

\* what is recorded of a query() call when it ends
Ended(f, outcome, w) ==
    [sql |-> f.sql, handler |-> f.handler, buffer |-> f.buffer, outcome |-> outcome,
     acquired |-> f.res, frees |-> Dtor(f, w).frees, unread |-> Dtor(f, w).unread,
     delivered |-> f.delivered, expected |-> f.expected, missing |-> FALSE,
     touched |-> <<>>]

\* a query() call that raised before it acquired a handle
EndedWithoutHandle(sql, handler, buffer) ==
    [sql |-> sql, handler |-> handler, buffer |-> buffer, outcome |-> "raised",
     acquired |-> FALSE, frees |-> 0, unread |-> 0, delivered |-> <<>>, expected |-> <<>>,
     missing |-> FALSE, touched |-> <<>>]

\* a query() call whose statement was accepted but whose result handle is NULL;
\* `touched` are the library calls the code made on the NULL handle.  No destructor
\* frees it: both test _res first
EndedMissing(sql, handler, buffer, touched) ==
    [sql |-> sql, handler |-> handler, buffer |-> buffer, outcome |-> "raised",
     acquired |-> FALSE, frees |-> 0, unread |-> 0, delivered |-> <<>>, expected |-> <<>>,
     missing |-> TRUE, touched |-> touched]

\* an exception leaves every active call, innermost first, running each destructor
RECURSIVE Unwind(_, _)
Unwind(frames, w) ==
    IF frames = <<>> THEN [wire |-> w, popped |-> <<>>]
    ELSE LET f == frames[Len(frames)]
             rest == Unwind(SubSeq(frames, 1, Len(frames) - 1), Dtor(f, w).wire)
         IN  [wire |-> rest.wire, popped |-> <<Ended(f, "raised", w)>> \o rest.popped]

RECURSIVE Frees(_)
Frees(ps) == IF ps = <<>> THEN 0 ELSE Head(ps).frees + Frees(Tail(ps))

\* the error text without the statement
QueryErrorText_NoStatement(diagnostic, sql) == diagnostic

QueryErrorText(diagnostic, sql) == diagnostic \o <<"\n">> \o sql

\* mysql_fetch_row / the PostgreSQL row_number loop test: the next row, if any
mysql_fetch_row(f, w) ==
    IF f.buffer
    THEN IF f.pos < Len(f.stored)
         THEN [null |-> FALSE, row |-> f.stored[f.pos + 1], wire |-> w]
         ELSE [null |-> TRUE, row |-> <<>>, wire |-> w]
    ELSE IF w # <<>>
         THEN [null |-> FALSE, row |-> Head(w), wire |-> Tail(w)]
         ELSE [null |-> TRUE, row |-> <<>>, wire |-> w]

\* the row loop starting at row_number 1
PostgreSQLNextRow_FromSecond(f, w) ==
    IF f.pos + 1 < f.n_tuples
    THEN [null |-> FALSE, row |-> f.stored[f.pos + 2], wire |-> w]
    ELSE [null |-> TRUE, row |-> <<>>, wire |-> w]

PostgreSQLNextRow(f, w) ==
    IF f.pos < f.n_tuples
    THEN [null |-> FALSE, row |-> f.stored[f.pos + 1], wire |-> w]
    ELSE [null |-> TRUE, row |-> <<>>, wire |-> w]

Fetch(f, w) == IF engine = "mysql" THEN mysql_fetch_row(f, w) ELSE PostgreSQLNextRow(f, w)

Top == stack[Len(stack)]

(***************************************************************************)
(* Initial states.                                                         *)
(***************************************************************************)
ServerVersions == {50604, MYSQL_5_6_5, 50606}

InitWith(engines, arguments, servers, catalogs, tables_data) ==
    /\ engine \in engines
    /\ args \in arguments
    /\ server \in servers
    /\ catalog \in catalogs
    /\ data \in tables_data
    /\ pc = "new"
    /\ stack = <<>>
    /\ wire = <<>>
    /\ outstanding = 0
    /\ table = NoTable
    /\ unique_but_nullable_keys = {}
    /\ chosen_key = <<>>
    /\ lister_pc = "idle"
    /\ database = [tables |-> <<>>, indexed |-> FALSE]
    /\ error = NoError
    /\ popped = <<>>
    /\ rejected = NoRejection
    /\ request = NoRequest
    /\ before_disable = <<>>

\* a MySQL 5.6.5 session with the defaults: foreign keys checked at once
DefaultServer == NewServer(MYSQL_5_6_5, 1, "IMMEDIATE")

\* every server version and every enforcement setting a session can start with
Servers ==
    {NewServer(v, f, m) : v \in ServerVersions, f \in {0, 1}, m \in {"IMMEDIATE", "DEFERRED"}}

Engines == {"mysql", "postgresql"}

AllArguments == [readonly : BOOLEAN, snapshot : BOOLEAN]

\* the client life cycle over small catalogs
Init ==
    InitWith(Engines, {[readonly |-> TRUE, snapshot |-> TRUE]}, {DefaultServer},
             SmallCatalogs, SUBSET (1..MaxKey))

\* schema population of one table of every shape
InitSchema ==
    InitWith(Engines, {[readonly |-> TRUE, snapshot |-> TRUE]}, {DefaultServer},
             RichCatalogs("sessions", SessionColumns), {{}})

\* transaction handling for every argument and server version, on an empty database
InitTxn ==
    InitWith(Engines, AllArguments, Servers, {<<>>}, {{}})

(***************************************************************************)
(* Exceptions and query() calls.                                           *)
(***************************************************************************)
\* an exception thrown with `frames` active and `w` on the connection; `inner` are
\* the calls that ended in the throwing statement itself, having acquired
\* `inner_acquired` handles.  An exception out of the constructor leaves no
\* client object; one out of retrieve_rows goes to the caller of a living client
Raise(err, frames, w, inner, inner_acquired) ==
    LET u == Unwind(frames, w)
    IN  /\ stack' = <<>>
        /\ wire' = u.wire
        /\ popped' = inner \o u.popped
        /\ outstanding' = outstanding + inner_acquired - Frees(inner \o u.popped)
        /\ error' = err
        /\ pc' = IF pc \in {"ready", "retrieving"} THEN "returning" ELSE "failed"
        /\ lister_pc' = "idle"
        /\ table' = NoTable
        /\ unique_but_nullable_keys' = {}

\* the process dies: its memory and its connection go with it
Crash ==
    /\ pc' = "crashed"
    /\ stack' = <<>>
    /\ wire' = <<>>
    /\ popped' = <<>>
    /\ outstanding' = 0
    /\ error' = NoError
    /\ lister_pc' = "idle"
    /\ table' = NoTable
    /\ unique_but_nullable_keys' = {}

\* MySQLRes on a NULL handle: mysql_num_rows(NULL) and mysql_num_fields(NULL), then
\* mysql_fetch_row(NULL) in the loop of query(), are undefined: the library
\* dereferences the handle and the process dies, or it answers 0 / NULL and the
\* errno test after the loop throws
MySQLResMissing(sql, handler, buffer) ==
    \E survives \in BOOLEAN :
        IF survives
        THEN Raise(QueryErrorText(OutOfMemory, sql), stack, wire,
                   <<EndedMissing(sql, handler, buffer,
                        <<"mysql_num_rows", "mysql_num_fields", "mysql_fetch_row">>)>>, 0)
        ELSE Crash

\* PostgreSQLRes on a NULL handle: PQntuples(NULL) and PQnfields(NULL) answer 0,
\* PQresultStatus(NULL) is PGRES_FATAL_ERROR and query() throws
PostgreSQLResMissing(sql, handler) ==
    Raise(QueryErrorText(OutOfMemory, sql), stack, wire,
          <<EndedMissing(sql, handler, TRUE,
                <<"PQntuples", "PQnfields", "PQresultStatus">>)>>, 0)

\* MySQLClient::query up to the fetch loop
MySQLQuery(sql, handler, buffer, verdict, handle, answer, next) ==
    IF verdict # NoError
    THEN /\ Raise(QueryErrorText(verdict, sql), stack, wire,
                  <<EndedWithoutHandle(sql, handler, buffer)>>, 0)
         /\ rejected' = [diagnostic |-> verdict, sql |-> sql]
    ELSE IF ~handle
    THEN /\ MySQLResMissing(sql, handler, buffer)
         /\ rejected' = NoRejection
    ELSE LET r == MySQLRes(sql, handler, wire, answer, buffer)
         IN  /\ stack' = Append(stack, r.frame)
             /\ rejected' = NoRejection
             /\ wire' = r.wire
             /\ outstanding' = outstanding + 1
             /\ error' = NoError
             /\ pc' = next.pc
             /\ lister_pc' = next.lister_pc
             /\ table' = next.table
             /\ unique_but_nullable_keys' = next.unique_but_nullable_keys
             /\ popped' = IF stack = <<>> THEN <<>> ELSE popped

\* PostgreSQLClient::query up to the row loop
PostgreSQLQuery(sql, handler, verdict, handle, answer, next) ==
    IF verdict # NoError
    THEN /\ Raise(QueryErrorText(verdict, sql), stack, wire,
                  <<Ended(PostgreSQLRes(sql, handler, <<>>), "raised", wire)>>, 1)
         /\ rejected' = [diagnostic |-> verdict, sql |-> sql]
    ELSE IF ~handle
    THEN /\ PostgreSQLResMissing(sql, handler)
         /\ rejected' = NoRejection
    ELSE /\ stack' = Append(stack, PostgreSQLRes(sql, handler, answer))
         /\ rejected' = NoRejection
         /\ outstanding' = outstanding + 1
         /\ error' = NoError
         /\ pc' = next.pc
         /\ lister_pc' = next.lister_pc
         /\ table' = next.table
         /\ unique_but_nullable_keys' = next.unique_but_nullable_keys
         /\ popped' = IF stack = <<>> THEN <<>> ELSE popped
         /\ UNCHANGED wire

\* the engine accepts the statement and answers it, or rejects it with a diagnostic;
\* the client library hands over a result handle for the answer, or NULL
query(sql, handler, buffer, next) ==
    \E verdict \in {NoError} \cup Diagnostics :
        \E handle \in (IF verdict = NoError THEN BOOLEAN ELSE {TRUE}) :
            \E answer \in (IF verdict = NoError /\ handle THEN Answers(sql) ELSE {<<>>}) :
                IF engine = "mysql"
                THEN MySQLQuery(sql, handler, buffer, verdict, handle, answer, next)
                ELSE PostgreSQLQuery(sql, handler, verdict, handle, answer, next)

Locals(p, l, t, u) == [pc |-> p, lister_pc |-> l, table |-> t, unique_but_nullable_keys |-> u]

(***************************************************************************)
(* execute and the transaction statements.                                 *)
(***************************************************************************)
SyntaxError == <<"You have an error in your SQL syntax">>

MySQLExecute(srv, sql, verdict) ==
    LET diagnostic == IF verdict # NoError THEN verdict ELSE SyntaxError
    IN  IF verdict # NoError \/ ~Understands(srv, sql)
        THEN [server |-> srv, error |-> QueryErrorText(diagnostic, sql),
              rejected |-> [diagnostic |-> diagnostic, sql |-> sql]]
        ELSE [server |-> Apply(srv, sql), error |-> NoError, rejected |-> NoRejection]

PostgreSQLExecute(srv, sql, verdict) ==
    LET diagnostic == IF verdict # NoError THEN verdict ELSE SyntaxError
    IN  IF verdict # NoError \/ ~Understands(srv, sql)
        THEN [server |-> srv, error |-> QueryErrorText(diagnostic, sql),
              rejected |-> [diagnostic |-> diagnostic, sql |-> sql]]
        ELSE [server |-> Apply(srv, sql), error |-> NoError, rejected |-> NoRejection]

\* the version test with > for >=
MySQLStartTransaction_After565(srv, readonly, snapshot, verdict1, verdict2) ==
    LET first == MySQLExecute(srv,
                    IF snapshot THEN <<"SET TRANSACTION ISOLATION LEVEL REPEATABLE READ">>
                    ELSE <<"SET TRANSACTION ISOLATION LEVEL READ COMMITTED">>, verdict1)
    IN  IF first.error # NoError THEN first
        ELSE MySQLExecute(first.server,
                    IF readonly /\ srv.version > MYSQL_5_6_5
                    THEN <<"START TRANSACTION READ ONLY">>
                    ELSE <<"START TRANSACTION">>, verdict2)

MySQLStartTransaction(srv, readonly, snapshot, verdict1, verdict2) ==
    LET first == MySQLExecute(srv,
                    IF snapshot THEN <<"SET TRANSACTION ISOLATION LEVEL REPEATABLE READ">>
                    ELSE <<"SET TRANSACTION ISOLATION LEVEL READ COMMITTED">>, verdict1)
    IN  IF first.error # NoError THEN first
        ELSE MySQLExecute(first.server,
                    IF readonly /\ srv.version >= MYSQL_5_6_5
                    THEN <<"START TRANSACTION READ ONLY">>
                    ELSE <<"START TRANSACTION">>, verdict2)

PostgreSQLStartTransaction(srv, readonly, snapshot, verdict) ==
    IF snapshot
    THEN PostgreSQLExecute(srv,
            IF readonly THEN <<"START TRANSACTION READ ONLY ISOLATION LEVEL REPEATABLE READ">>
            ELSE <<"START TRANSACTION ISOLATION LEVEL REPEATABLE READ">>, verdict)
    ELSE PostgreSQLExecute(srv,
            IF readonly THEN <<"START TRANSACTION READ ONLY ISOLATION LEVEL READ COMMITTED">>
            ELSE <<"START TRANSACTION ISOLATION LEVEL READ COMMITTED">>, verdict)

Verdicts == {NoError} \cup Diagnostics

(***************************************************************************)
(* Actions.                                                                *)
(***************************************************************************)
\* the constructor up to the connection test
Connect ==
    /\ pc = "new"
    /\ \E verdict \in Verdicts :
        /\ pc' = IF verdict = NoError THEN "connected" ELSE "failed"
        /\ error' = verdict
    /\ UNCHANGED <<rejected, request, before_disable, engine, args, server, catalog, data, stack, wire, outstanding, table,
                   unique_but_nullable_keys, chosen_key, lister_pc, database, popped>>

StartTransaction ==
    /\ pc = "connected"
    /\ \E verdict1 \in Verdicts :
        \E verdict2 \in (IF engine = "mysql" /\ verdict1 = NoError THEN Verdicts ELSE {NoError}) :
            LET r == IF engine = "mysql"
                     THEN MySQLStartTransaction(server, args.readonly, args.snapshot,
                                                verdict1, verdict2)
                     ELSE PostgreSQLStartTransaction(server, args.readonly, args.snapshot,
                                                     verdict1)
            IN  /\ server' = r.server
                /\ error' = r.error
                /\ rejected' = r.rejected
                /\ pc' = IF r.error = NoError THEN "in_transaction" ELSE "failed"
    /\ UNCHANGED <<request, before_disable, engine, args, catalog, data, stack, wire, outstanding, table,
                   unique_but_nullable_keys, chosen_key, lister_pc, database, popped>>

CommitTransaction ==
    /\ pc \in {"ready", "integrity_disabled", "integrity_enabled"}
    /\ stack = <<>>
    /\ server.txn.active
    /\ \E verdict \in Verdicts :
            LET r == IF engine = "mysql" THEN MySQLExecute(server, <<"COMMIT">>, verdict)
                     ELSE PostgreSQLExecute(server, <<"COMMIT">>, verdict)
            IN  /\ server' = r.server
                /\ error' = r.error
                /\ rejected' = r.rejected
    /\ UNCHANGED <<request, before_disable, engine, args, catalog, data, pc, stack, wire, outstanding, table,
                   unique_but_nullable_keys, chosen_key, lister_pc, database, popped>>

\* the table enumeration issued as soon as the connection stands
PopulateDatabaseSchema_BeforeTransaction ==
    /\ pc \in {"connected", "in_transaction"}
    /\ query(IF engine = "mysql" THEN MySQLTablesSql ELSE PostgreSQLTablesSql,
             "table_lister", TRUE,
             Locals("populating", "idle", table, unique_but_nullable_keys))
    /\ UNCHANGED <<request, before_disable, engine, args, server, catalog, data, chosen_key, database>>

\* the table enumeration through mysql_use_result
PopulateDatabaseSchema_Unbuffered ==
    /\ pc = "in_transaction"
    /\ query(IF engine = "mysql" THEN MySQLTablesSql ELSE PostgreSQLTablesSql,
             "table_lister", FALSE,
             Locals("populating", "idle", table, unique_but_nullable_keys))
    /\ UNCHANGED <<request, before_disable, engine, args, server, catalog, data, chosen_key, database>>

\* what the session enforces: foreign_key_checks on MySQL, the constraint mode on
\* PostgreSQL
Enforcement(srv) == IF engine = "mysql" THEN srv.foreign_key_checks ELSE srv.constraints

DisableReferentialIntegrity ==
    /\ pc \in {"ready", "integrity_enabled"}
    /\ stack = <<>>
    /\ \E verdict \in Verdicts :
            LET r == IF engine = "mysql"
                     THEN MySQLExecute(server, <<"SET foreign_key_checks = 0">>, verdict)
                     ELSE PostgreSQLExecute(server, <<"SET CONSTRAINTS ALL DEFERRED">>, verdict)
            IN  /\ server' = r.server
                /\ error' = r.error
                /\ rejected' = r.rejected
                /\ pc' = IF r.error = NoError THEN "integrity_disabled" ELSE pc
                /\ before_disable' = IF r.error = NoError THEN <<Enforcement(server)>>
                                     ELSE before_disable
    /\ UNCHANGED <<request, engine, args, catalog, data, stack, wire, outstanding, table,
                   unique_but_nullable_keys, chosen_key, lister_pc, database, popped>>

\* MySQL sets foreign_key_checks = 1; the PostgreSQL function has an empty body
EnableReferentialIntegrity ==
    /\ pc = "integrity_disabled"
    /\ stack = <<>>
    /\ \E verdict \in (IF engine = "mysql" THEN Verdicts ELSE {NoError}) :
            LET r == IF engine = "mysql"
                     THEN MySQLExecute(server, <<"SET foreign_key_checks = 1">>, verdict)
                     ELSE [server |-> server, error |-> NoError, rejected |-> NoRejection]
            IN  /\ server' = r.server
                /\ error' = r.error
                /\ rejected' = r.rejected
                /\ pc' = IF r.error = NoError THEN "integrity_enabled" ELSE pc
    /\ UNCHANGED <<request, before_disable, engine, args, catalog, data, stack, wire, outstanding,
                   table, unique_but_nullable_keys, chosen_key, lister_pc, database, popped>>

\* populate_database_schema: the table enumeration, buffered
PopulateDatabaseSchema ==
    /\ pc = "in_transaction"
    /\ query(IF engine = "mysql" THEN MySQLTablesSql ELSE PostgreSQLTablesSql,
             "table_lister", TRUE,
             Locals("populating", "idle", table, unique_but_nullable_keys))
    /\ UNCHANGED <<request, before_disable, engine, args, server, catalog, data, chosen_key, database>>

Fetched == Fetch(Top, wire)

\* the running call after one more row went to its handler
Advanced ==
    [stack EXCEPT ![Len(stack)] =
        [Top EXCEPT !.pos = @ + 1, !.delivered = Append(@, Fetched.row)]]

\* the table lister takes a table row: Table table(row.string_at(0))
TableListerRow ==
    /\ stack # <<>>
    /\ Top.handler = "table_lister"
    /\ lister_pc = "idle"
    /\ ~Fetched.null
    /\ stack' = Advanced
    /\ wire' = Fetched.wire
    /\ table' = Table(string_at(Fetched.row, 0))
    /\ lister_pc' = "columns"
    /\ UNCHANGED <<rejected, request, before_disable, engine, args, server, catalog, data, pc, outstanding,
                   unique_but_nullable_keys, chosen_key, database, error, popped>>

TableListerColumns ==
    /\ stack # <<>>
    /\ Top.handler = "table_lister"
    /\ lister_pc = "columns"
    /\ query(IF engine = "mysql" THEN MySQLColumnsSql(table.name)
             ELSE PostgreSQLColumnsSql(table.name),
             "column_lister", FALSE,
             Locals(pc, IF engine = "mysql" THEN "keys" ELSE "primary_key", table,
                    unique_but_nullable_keys))
    /\ UNCHANGED <<request, before_disable, engine, args, server, catalog, data, chosen_key, database>>

ColumnListerRow ==
    /\ stack # <<>>
    /\ Top.handler = "column_lister"
    /\ ~Fetched.null
    /\ stack' = Advanced
    /\ wire' = Fetched.wire
    /\ table' = IF engine = "mysql" THEN MySQLColumnLister(table, Fetched.row)
                ELSE PostgreSQLColumnLister(table, Fetched.row)
    /\ UNCHANGED <<rejected, request, before_disable, engine, args, server, catalog, data, pc, outstanding, lister_pc,
                   unique_but_nullable_keys, chosen_key, database, error, popped>>

TableListerPrimaryKey ==
    /\ stack # <<>>
    /\ Top.handler = "table_lister"
    /\ lister_pc = "primary_key"
    /\ query(PostgreSQLPrimaryKeySql(table.name), "primary_key_lister", TRUE,
             Locals(pc, "keys", table, unique_but_nullable_keys))
    /\ UNCHANGED <<request, before_disable, engine, args, server, catalog, data, chosen_key, database>>

PrimaryKeyListerRow ==
    /\ stack # <<>>
    /\ Top.handler = "primary_key_lister"
    /\ ~Fetched.null
    /\ stack' = Advanced
    /\ wire' = Fetched.wire
    /\ table' = PostgreSQLPrimaryKeyLister(table, Fetched.row)
    /\ UNCHANGED <<rejected, request, before_disable, engine, args, server, catalog, data, pc, outstanding, lister_pc,
                   unique_but_nullable_keys, chosen_key, database, error, popped>>

\* the key query run with the key lister of the table before
TableListerKeys_SharedKeyLister ==
    /\ stack # <<>>
    /\ Top.handler = "table_lister"
    /\ lister_pc = "keys"
    /\ query(IF engine = "mysql" THEN MySQLKeysSql(table.name)
             ELSE PostgreSQLKeysSql(table.name),
             "key_lister", FALSE,
             Locals(pc, "finish", table, unique_but_nullable_keys))
    /\ UNCHANGED <<request, before_disable, engine, args, server, catalog, data, chosen_key, database>>

\* a fresh key lister, then the key query
TableListerKeys ==
    /\ stack # <<>>
    /\ Top.handler = "table_lister"
    /\ lister_pc = "keys"
    /\ query(IF engine = "mysql" THEN MySQLKeysSql(table.name)
             ELSE PostgreSQLKeysSql(table.name),
             "key_lister", FALSE,
             Locals(pc, "finish", table, {}))
    /\ UNCHANGED <<request, before_disable, engine, args, server, catalog, data, chosen_key, database>>

KeyListerRow ==
    /\ stack # <<>>
    /\ Top.handler = "key_lister"
    /\ ~Fetched.null
    /\ LET l == [table |-> table, unique_but_nullable_keys |-> unique_but_nullable_keys]
           r == IF engine = "mysql" THEN MySQLKeyLister(l, Fetched.row)
                ELSE PostgreSQLKeyLister(l, Fetched.row)
       IN  /\ table' = r.table
           /\ unique_but_nullable_keys' = r.unique_but_nullable_keys
    /\ stack' = Advanced
    /\ wire' = Fetched.wire
    /\ UNCHANGED <<rejected, request, before_disable, engine, args, server, catalog, data, pc, outstanding, lister_pc,
                   chosen_key, database, error, popped>>

\* a table without usable key left out instead of the throw
TableListerFinish_SkipsTable ==
    /\ stack # <<>>
    /\ Top.handler = "table_lister"
    /\ lister_pc = "finish"
    /\ \E r \in SurrogatePrimaryKey(table, unique_but_nullable_keys) :
        /\ database' = IF r.table.primary_key_columns = <<>> THEN database
                       ELSE [database EXCEPT !.tables = Append(@, r.table)]
        /\ chosen_key' = IF r.table.primary_key_columns = <<>> THEN chosen_key
                         ELSE Append(chosen_key, r.chosen)
        /\ lister_pc' = "idle"
        /\ table' = NoTable
        /\ UNCHANGED <<stack, wire, popped, outstanding, error, pc,
                       unique_but_nullable_keys>>
    /\ UNCHANGED <<rejected, request, before_disable, engine, args, server, catalog, data>>

\* the table put at the front of database.tables
TableListerFinish_Prepends ==
    /\ stack # <<>>
    /\ Top.handler = "table_lister"
    /\ lister_pc = "finish"
    /\ \E r \in SurrogatePrimaryKey(table, unique_but_nullable_keys) :
        IF r.table.primary_key_columns = <<>>
        THEN /\ Raise(SchemaErrorText(table), stack, wire, <<>>, 0)
             /\ UNCHANGED <<database, chosen_key>>
        ELSE /\ database' = [database EXCEPT !.tables = <<r.table>> \o @]
             /\ chosen_key' = <<r.chosen>> \o chosen_key
             /\ lister_pc' = "idle"
             /\ table' = NoTable
             /\ UNCHANGED <<stack, wire, popped, outstanding, error, pc,
                            unique_but_nullable_keys>>
    /\ UNCHANGED <<rejected, request, before_disable, engine, args, server, catalog, data>>

\* sort the keys, derive the surrogate primary key, append the table or throw
TableListerFinish ==
    /\ stack # <<>>
    /\ Top.handler = "table_lister"
    /\ lister_pc = "finish"
    /\ \E r \in SurrogatePrimaryKey(table, unique_but_nullable_keys) :
        IF r.table.primary_key_columns = <<>>
        THEN /\ Raise(SchemaErrorText(table), stack, wire, <<>>, 0)
             /\ UNCHANGED <<database, chosen_key>>
        ELSE /\ database' = [database EXCEPT !.tables = Append(@, r.table)]
             /\ chosen_key' = Append(chosen_key, r.chosen)
             /\ lister_pc' = "idle"
             /\ table' = NoTable
             /\ UNCHANGED <<stack, wire, popped, outstanding, error, pc,
                            unique_but_nullable_keys>>
    /\ UNCHANGED <<rejected, request, before_disable, engine, args, server, catalog, data>>

\* no more rows and no engine error: the call returns, its result is destroyed;
\* populate_database_schema goes on to index_database_tables
QueryEnd ==
    /\ stack # <<>>
    /\ Top.handler = "table_lister" => lister_pc = "idle"
    /\ Fetched.null
    /\ stack' = SubSeq(stack, 1, Len(stack) - 1)
    /\ wire' = Dtor(Top, wire).wire
    /\ outstanding' = outstanding - Dtor(Top, wire).frees
    /\ popped' = <<Ended(Top, "returned", wire)>>
    /\ database' = IF Top.handler = "table_lister"
                   THEN [database EXCEPT !.indexed = TRUE] ELSE database
    /\ pc' = IF Len(stack) = 1 THEN "returning" ELSE pc
    /\ UNCHANGED <<rejected, request, before_disable, engine, args, server, catalog, data, table, unique_but_nullable_keys,
                   chosen_key, lister_pc, error>>

\* the loop left on the NULL row without the errno test: the call returns
FetchError_ReturnsNormally ==
    /\ engine = "mysql"
    /\ stack # <<>>
    /\ ~Top.buffer
    /\ stack' = SubSeq(stack, 1, Len(stack) - 1)
    /\ wire' = <<>>
    /\ outstanding' = outstanding - 1
    /\ popped' = <<Ended(Top, "returned", <<>>)>>
    /\ pc' = IF Len(stack) = 1 THEN "returning" ELSE pc
    /\ UNCHANGED <<rejected, request, before_disable, engine, args, server, catalog, data, chosen_key, database,
                   table, unique_but_nullable_keys, lister_pc, error>>

\* mysql_fetch_row returns NULL because the engine reported an error: the rows
\* in flight are lost and the check after the loop throws
FetchError ==
    /\ engine = "mysql"
    /\ stack # <<>>
    /\ ~Top.buffer
    /\ \E diagnostic \in Diagnostics :
            Raise(QueryErrorText(diagnostic, Top.sql), stack, <<>>, <<>>, 0)
    /\ UNCHANGED <<rejected, request, before_disable, engine, args, server, catalog, data, chosen_key, database>>

\* the constructor or retrieve_rows hands control back to the caller, with the
\* client ready for the next call
Return ==
    /\ pc = "returning"
    /\ pc' = "ready"
    /\ popped' = <<>>
    /\ error' = NoError
    /\ rejected' = NoRejection
    /\ request' = NoRequest
    /\ UNCHANGED <<before_disable, engine, args, server, catalog, data, stack, wire, outstanding, table,
                   unique_but_nullable_keys, chosen_key, lister_pc, database>>

\* retrieve_rows passing row_count and prev_key the wrong way round
RetrieveRows_SwapsArguments ==
    /\ pc = "ready"
    /\ stack = <<>>
    /\ \E tbl \in Range(database.tables), prev_key \in 0..MaxKey, row_count \in 0..MaxKey :
            /\ request' = [table |-> tbl.name, prev_key |-> prev_key, row_count |-> row_count]
            /\ query(retrieve_rows_sql(tbl, row_count, prev_key), "row_packer", FALSE,
                     Locals("retrieving", lister_pc, table, unique_but_nullable_keys))
    /\ UNCHANGED <<before_disable, engine, args, server, catalog, data, chosen_key, database>>

RetrieveRows ==
    /\ pc = "ready"
    /\ stack = <<>>
    /\ \E tbl \in Range(database.tables), prev_key \in 0..MaxKey, row_count \in 0..MaxKey :
            /\ request' = [table |-> tbl.name, prev_key |-> prev_key, row_count |-> row_count]
            /\ query(retrieve_rows_sql(tbl, prev_key, row_count), "row_packer", FALSE,
                     Locals("retrieving", lister_pc, table, unique_but_nullable_keys))
    /\ UNCHANGED <<before_disable, engine, args, server, catalog, data, chosen_key, database>>

RowPackerError == <<"row packer failed">>

\* the caller's row packer takes a row, and may throw
RowPackerRow ==
    /\ stack # <<>>
    /\ Top.handler = "row_packer"
    /\ ~Fetched.null
    /\ \E throws \in BOOLEAN :
        IF throws
        THEN Raise(RowPackerError, Advanced, Fetched.wire, <<>>, 0)
        ELSE /\ stack' = Advanced
             /\ wire' = Fetched.wire
             /\ UNCHANGED <<pc, outstanding, lister_pc, table, unique_but_nullable_keys,
                            error, popped>>
    /\ UNCHANGED <<rejected, request, before_disable, engine, args, server, catalog, data, chosen_key, database>>

Next ==
    \/ Connect
    \/ StartTransaction
    \/ PopulateDatabaseSchema
    \/ TableListerRow
    \/ TableListerColumns
    \/ ColumnListerRow
    \/ TableListerPrimaryKey
    \/ PrimaryKeyListerRow
    \/ TableListerKeys
    \/ KeyListerRow
    \/ TableListerFinish
    \/ QueryEnd
    \/ FetchError
    \/ Return
    \/ RetrieveRows
    \/ RowPackerRow

Spec == Init /\ [][Next]_vars

NextSchema ==
    \/ Connect
    \/ StartTransaction
    \/ PopulateDatabaseSchema
    \/ TableListerRow
    \/ TableListerColumns
    \/ ColumnListerRow
    \/ TableListerPrimaryKey
    \/ PrimaryKeyListerRow
    \/ TableListerKeys
    \/ KeyListerRow
    \/ TableListerFinish
    \/ QueryEnd
    \/ FetchError
    \/ Return

SpecSchema == InitSchema /\ [][NextSchema]_vars

NextTxn ==
    \/ Connect
    \/ StartTransaction
    \/ PopulateDatabaseSchema
    \/ QueryEnd
    \/ Return
    \/ CommitTransaction
    \/ DisableReferentialIntegrity
    \/ EnableReferentialIntegrity

SpecTxn == InitTxn /\ [][NextTxn]_vars

(***************************************************************************)
(* What the catalog says about a table, for the properties below.          *)
(***************************************************************************)
Rank(name) == PositionIn(KeyNames, name)

\* 0-based positions of the named columns in the engine's table c
ColumnIndices(c, names) == [i \in DOMAIN names |-> PositionIn(c.columns, names[i]) - 1]

HasNullableColumn(c, k) == Range(k.columns) \cap c.nullable # {}

\* the unique keys of c without a nullable column
UsableKeys(c) == {k \in Range(c.keys) : k.unique /\ ~HasNullableColumn(c, k)}

FirstUsableKey(c) == CHOOSE k \in UsableKeys(c) : \A o \in UsableKeys(c) : Rank(k.name) <= Rank(o.name)

CatalogKey(c, name) == CHOOSE k \in Range(c.keys) : k.name = name

SortedByName(keys) == \A i, j \in DOMAIN keys : i < j => Rank(keys[i].name) <= Rank(keys[j].name)

Listed(i) == database.tables[i]

Source(i) == CatalogTable(database.tables[i].name)

(***************************************************************************)
(* Properties.                                                             *)
(***************************************************************************)
\* C1: a listed table without explicit primary key but with a unique key free of
\* nullable columns has its keys sorted by name and the columns, in key order, of
\* the first such key by name as primary_key_columns, however the key rows arrived.
C1_SurrogateIsFirstUsableKey ==
    \A i \in DOMAIN database.tables :
        (Source(i).pk = <<>> /\ UsableKeys(Source(i)) # {}) =>
            /\ SortedByName(Listed(i).keys)
            /\ Listed(i).primary_key_columns =
                    ColumnIndices(Source(i), FirstUsableKey(Source(i)).columns)

\* C2: a listed table with an explicit primary key has exactly the primary-key
\* columns, in their order in the primary key, as primary_key_columns.
C2_ExplicitPrimaryKeyKept ==
    \A i \in DOMAIN database.tables :
        Source(i).pk # <<>> =>
            Listed(i).primary_key_columns = ColumnIndices(Source(i), Source(i).pk)

Unusable(c) == c.pk = <<>> /\ UsableKeys(c) = {}

\* C3: a table without explicit primary key and without usable unique key is never
\* listed, so every listed table has primary_key_columns, and when the table lister
\* finishes such a table it throws the schema error naming the table and leaves
\* the database as it was.
C3_NoUsableKeyIsSchemaError ==
    /\ [](\A i \in DOMAIN database.tables :
            Listed(i).primary_key_columns # <<>> /\ ~Unusable(Source(i)))
    /\ [][(/\ stack # <<>>
           /\ Top.handler = "table_lister"
           /\ lister_pc = "finish"
           /\ lister_pc' # "finish"
           /\ Unusable(CatalogTable(table.name)))
          => (/\ error' = <<"Couldn't find a primary or non-nullable unique key on table ",
                            table.name>>
              /\ pc' = "failed"
              /\ stack' = <<>>
              /\ database' = database)]_vars

C3_SchemaErrorRaised ==
    /\ pc = "failed"
    /\ error = <<"Couldn't find a primary or non-nullable unique key on table ", "sessions">>
    /\ database.tables = <<>>
    /\ \E k \in Range(catalog[1].keys) : k.unique /\ HasNullableColumn(catalog[1], k)

\* The key taken as surrogate is a unique key of the table none of whose columns
\* permits NULL, and primary_key_columns are columns of that key.
NullableKeyNeverChosen ==
    \A i \in DOMAIN database.tables :
        /\ chosen_key[i] # "" =>
            /\ Source(i).pk = <<>>
            /\ CatalogKey(Source(i), chosen_key[i]) \in UsableKeys(Source(i))
            /\ Range(Listed(i).primary_key_columns) \subseteq
                    Range(ColumnIndices(Source(i), CatalogKey(Source(i), chosen_key[i]).columns))
        /\ Source(i).pk = <<>> => chosen_key[i] # ""

\* C4: a unique key with a column that permits NULL is never taken as the surrogate
\* primary key, and for the sessions table of the scenario (unique nullable key on
\* token, unique key on (user_id, device_id)) the surrogate primary key is
\* (user_id, device_id).
C4_NullableKeyNeverSurrogate ==
    /\ NullableKeyNeverChosen
    /\ \A i \in DOMAIN database.tables :
        Source(i) = SessionsTable =>
            /\ chosen_key[i] = "idx_b"
            /\ Listed(i).primary_key_columns = <<1, 2>>

Unread(f) == SubSeq(f.expected, f.pos + 1, Len(f.expected))

\* C5: the connection holds unread rows only while an unbuffered result is being
\* iterated, and then exactly the unread rows of that result: once a result is
\* disposed, also mid-iteration, nothing of it is left on the connection, and every
\* row a call hands to its callback is a row of its own result.
C5_UnreadRowsDrained ==
    /\ wire = IF stack # <<>> /\ ~Top.buffer THEN Unread(Top) ELSE <<>>
    /\ \A i \in DOMAIN stack : IsPrefix(stack[i].delivered, stack[i].expected)
    /\ \A i \in DOMAIN popped : IsPrefix(popped[i].delivered, popped[i].expected)

C5_DisposedMidIteration ==
    /\ engine = "mysql"
    /\ pc = "returning"
    /\ Len(popped) = 1
    /\ ~popped[1].buffer
    /\ popped[1].outcome = "raised"
    /\ popped[1].delivered # <<>>
    /\ popped[1].unread > 0
    /\ wire = <<>>

\* C6: the handles outstanding are those of the running calls, one each; a call that
\* ended, by return or by exception, freed the handle it acquired exactly once, and
\* no handle is outstanding when no call runs.
C6_HandleReleasedOnce ==
    /\ outstanding = Cardinality({i \in DOMAIN stack : stack[i].res})
    /\ \A i \in DOMAIN popped : popped[i].frees = IF popped[i].acquired THEN 1 ELSE 0
    /\ stack = <<>> => outstanding = 0

C6_NestedErrorUnwound ==
    /\ pc = "failed"
    /\ Len(popped) = 2
    /\ popped[1].handler = "key_lister"
    /\ popped[1].acquired
    /\ popped[2].handler = "table_lister"
    /\ popped[2].acquired
    /\ outstanding = 0

\* C7: a call that returned handed every row of its result to the callback, once
\* each and in arrival order.
C7_EveryRowOnceInOrder ==
    \A i \in DOMAIN popped :
        popped[i].outcome = "returned" => popped[i].delivered = popped[i].expected

C7_RowsDelivered ==
    /\ Len(popped) = 1
    /\ popped[1].handler = "row_packer"
    /\ popped[1].outcome = "returned"
    /\ Len(popped[1].delivered) >= 2

Keys(rows) == [i \in DOMAIN rows |-> rows[i][1]]

\* the callback invocations of the retrieve_rows call under way
RangedScanSoFar(rows) ==
    /\ Len(rows) <= request.row_count
    /\ \A i \in DOMAIN rows : Keys(rows)[i] \in data /\ Keys(rows)[i] > request.prev_key
    /\ \A i, j \in DOMAIN rows : i < j => Keys(rows)[i] < Keys(rows)[j]
    /\ \A k \in data : (k > request.prev_key /\ k \notin Range(Keys(rows))) =>
            \A i \in DOMAIN rows : Keys(rows)[i] < k

\* C8: retrieve_rows invokes the callback only for rows with key above prev_key, at
\* most row_count times, in ascending key order, for the smallest such keys; a call
\* that returned made as many invocations as row_count and the table allow: none
\* for row_count 0 or prev_key the maximum key.
C8_RangedScan ==
    /\ \A i \in DOMAIN stack :
            stack[i].handler = "row_packer" => RangedScanSoFar(stack[i].delivered)
    /\ \A i \in DOMAIN popped :
            popped[i].handler = "row_packer" =>
                /\ RangedScanSoFar(popped[i].delivered)
                /\ popped[i].outcome = "returned" =>
                        LET after == Cardinality({k \in data : k > request.prev_key})
                        IN  Len(popped[i].delivered) =
                                IF request.row_count < after THEN request.row_count ELSE after

C8_TwoSmallestAfter ==
    /\ Len(popped) = 1
    /\ popped[1].handler = "row_packer"
    /\ popped[1].outcome = "returned"
    /\ data = {1, 2, 3}
    /\ request.prev_key = 0
    /\ request.row_count = 2
    /\ popped[1].delivered = <<<<1>>, <<2>>>>

\* C9: when the engine rejected a statement, the error of the call is the engine's
\* diagnostic, a newline, and the statement, and the call invoked no row callback.
C9_StatementErrorText ==
    rejected # NoRejection =>
        /\ rejected.diagnostic \in Diagnostics
        /\ Len(error) = Len(rejected.diagnostic) + 1 + Len(rejected.sql)
        /\ SubSeq(error, 1, Len(rejected.diagnostic)) = rejected.diagnostic
        /\ error[Len(rejected.diagnostic) + 1] = "\n"
        /\ SubSeq(error, Len(rejected.diagnostic) + 2, Len(error)) = rejected.sql
        /\ popped # <<>> => (popped[1].sql = rejected.sql /\ popped[1].delivered = <<>>)
        /\ stack = <<>>

C9_QueryRejected ==
    /\ rejected # NoRejection
    /\ popped # <<>>
    /\ popped[1].handler = "row_packer"
    /\ error[Len(error) - 5] = "SELECT * FROM "

ReadOnlyStartSupported == engine = "postgresql" \/ server.version >= MYSQL_5_6_5

\* C10: once start_transaction succeeded the transaction runs at REPEATABLE READ if
\* snapshot and at READ COMMITTED otherwise, and is read-only exactly if readonly
\* was asked and the engine supports the read-only start: always on PostgreSQL, on
\* MySQL from 5.6.5 on; otherwise it is read-write at the same isolation level.
C10_TransactionMode ==
    /\ pc = "in_transaction" => server.txn.active
    /\ server.txn.active =>
        /\ server.txn.isolation =
                IF args.snapshot THEN "REPEATABLE READ" ELSE "READ COMMITTED"
        /\ server.txn.read_only = (args.readonly /\ ReadOnlyStartSupported)
    /\ pc = "connected" => ~server.txn.active

C10_ReadOnlyUnsupported ==
    /\ engine = "mysql"
    /\ server.version < MYSQL_5_6_5
    /\ args.readonly
    /\ ~args.snapshot
    /\ pc = "in_transaction"
    /\ server.txn = [active |-> TRUE, isolation |-> "READ COMMITTED", read_only |-> FALSE]

\* C11: construction goes connect, start transaction, populate schema, build the
\* name index, in this order: every catalog query runs inside the transaction, the
\* index is built when the table lister has seen every table row, and a failed step
\* ends construction: nothing runs after it and retrieve_rows is never served.
C11_ConstructionOrder ==
    /\ [](/\ (stack # <<>> \/ popped # <<>> \/ database.tables # <<>>) => server.txn.active
          /\ database.indexed =>
                [i \in DOMAIN database.tables |-> database.tables[i].name]
                    = [i \in DOMAIN catalog |-> catalog[i].name]
          /\ (pc \in {"ready", "retrieving"} \/ request # NoRequest) =>
                (database.indexed /\ server.txn.active)
          /\ pc = "failed" => (stack = <<>> /\ ~database.indexed /\ request = NoRequest))
    /\ [][/\ pc # "failed"
          /\ pc = "new" => (pc' \in {"connected", "failed"} /\ server' = server /\ stack' = <<>>)
          /\ pc = "connected" => (pc' \in {"in_transaction", "failed"} /\ stack' = <<>>)
          /\ pc = "in_transaction" => pc' \in {"populating", "failed", "crashed"}
          /\ pc = "populating" => pc' \in {"populating", "returning", "failed", "crashed"}
          /\ (database'.indexed /\ ~database.indexed) =>
                (/\ pc = "populating"
                 /\ Len(stack) = 1
                 /\ Top.handler = "table_lister"
                 /\ Top.delivered = Top.expected
                 /\ Len(database.tables) = Len(Top.expected))]_vars

C11_FailedDuringPopulation ==
    /\ pc = "failed"
    /\ server.txn.active
    /\ Len(catalog) = 2
    /\ Len(database.tables) = 1
    /\ ~database.indexed

\* C12: when the statement was accepted but no result handle was provided, the
\* query call raises an error to its caller, and made no library call on the
\* missing handle: no row or column count read, no row fetched, nothing freed.
C12_MissingHandleIsFatal ==
    /\ pc # "crashed"
    /\ \A i \in DOMAIN popped :
        popped[i].missing =>
            /\ popped[i].outcome = "raised"
            /\ error = OutOfMemory \o <<"\n">> \o popped[i].sql
            /\ popped[i].touched = <<>>
            /\ popped[i].frees = 0

\* a step in which a statement went to the engine: a query() call began, a
\* statement was rejected, execute() changed the session, or the result handle of
\* an accepted statement was missing
Submits ==
    \/ Len(stack') > Len(stack)
    \/ rejected' # NoRejection /\ rejected = NoRejection
    \/ server' # server
    \/ pc' = "crashed" /\ pc # "crashed"
    \/ \E i \in DOMAIN popped' : popped'[i].missing

\* C13: whenever a statement is submitted, no unbuffered result with unread rows
\* is outstanding on the connection; the only result iterated while further queries
\* are issued is the buffered table enumeration.
C13_NoUnbufferedResultAtSubmit ==
    /\ [](\A i \in 1..(Len(stack) - 1) :
            stack[i].buffer /\ stack[i].handler = "table_lister")
    /\ [][Submits =>
            (/\ wire = <<>>
             /\ \A i \in DOMAIN stack : stack[i].buffer /\ stack[i].handler = "table_lister")]_vars

C13_NestedUnderBuffered ==
    /\ engine = "mysql"
    /\ Len(stack) = 2
    /\ stack[1].buffer
    /\ stack[1].pos < stack[1].n_tuples
    /\ stack[2].handler = "key_lister"
    /\ ~stack[2].buffer
    /\ wire # <<>>

\* C14: a call whose row stream stopped before the end of the result did not
\* return: it raised, and when the engine's error stopped the fetching the error
\* raised is the engine's diagnostic with the statement, after the rows already
\* delivered.
C14_FetchErrorRaised ==
    /\ \A i \in DOMAIN popped :
        popped[i].delivered # popped[i].expected =>
            (popped[i].outcome = "raised" /\ error # NoError /\ pc \in {"failed", "returning"})
    /\ (/\ popped # <<>>
        /\ error # NoError
        /\ <<error[1]>> \in Diagnostics
        /\ rejected = NoRejection) =>
            /\ engine = "mysql"
            /\ popped[1].outcome = "raised"
            /\ ~popped[1].buffer
            /\ error = <<error[1]>> \o <<"\n">> \o popped[1].sql
            /\ IsPrefix(popped[1].delivered, popped[1].expected)

C14_FetchStoppedEarly ==
    /\ engine = "mysql"
    /\ popped # <<>>
    /\ popped[1].handler = "row_packer"
    /\ popped[1].outcome = "raised"
    /\ Len(popped[1].delivered) = 1
    /\ Len(popped[1].expected) = 3
    /\ error = <<"Lost connection to server", "\n">> \o popped[1].sql
    /\ rejected = NoRejection

IsSchemaError(e) == e # NoError /\ e[1] = "Couldn't find a primary or non-nullable unique key on table "

\* C15: the schema error of one table ends the population: it leaves every running
\* call and reaches the caller of the constructor, no step follows it (no later
\* table row, no nested catalog query, no name index), and the name index is only
\* ever built over all the tables of the catalog.
C15_ListerFailureIsFatal ==
    /\ [](IsSchemaError(error) =>
            (/\ pc = "failed"
             /\ stack = <<>>
             /\ ~database.indexed
             /\ Len(database.tables) < Len(catalog)
             /\ Unusable(catalog[Len(database.tables) + 1])
             /\ error[2] = catalog[Len(database.tables) + 1].name))
    /\ [](database.indexed =>
            (Len(database.tables) = Len(catalog) /\ \A i \in DOMAIN catalog : ~Unusable(catalog[i])))
    /\ [][~IsSchemaError(error)]_vars

C15_FirstTableFails ==
    /\ catalog = <<LogsTable, OrdersTable>>
    /\ pc = "failed"
    /\ error = <<"Couldn't find a primary or non-nullable unique key on table ", "logs">>
    /\ database = [tables |-> <<>>, indexed |-> FALSE]
    /\ Len(popped) = 1
    /\ popped[1].handler = "table_lister"
    /\ Len(popped[1].delivered) = 1
    /\ Len(popped[1].expected) = 2

(***************************************************************************)
(* The key rows read as the catalog means them.                            *)
(***************************************************************************)
KeyRowName(row) == IF engine = "mysql" THEN row[3] ELSE row[1]

KeyRowUnique(row) == IF engine = "mysql" THEN row[2] = "0" ELSE row[2] = "t"

KeyRowColumn(row) == IF engine = "mysql" THEN row[5] ELSE row[3]

IsPrimaryRow(row) == engine = "mysql" /\ KeyRowName(row) = "PRIMARY"

PrimaryRows(rows) == SelectSeq(rows, IsPrimaryRow)

OtherRows(rows) == SelectSeq(rows, LAMBDA r : ~IsPrimaryRow(r))

\* the rows of every key name stand together
Consecutive(rows) ==
    \A i, j \in DOMAIN rows :
        (i < j /\ KeyRowName(rows[i]) = KeyRowName(rows[j])) =>
            \A k \in i..j : KeyRowName(rows[k]) = KeyRowName(rows[i])

\* where a maximal run of rows with the same key name begins
RunStarts(rows) ==
    {i \in DOMAIN rows : i = 1 \/ KeyRowName(rows[i]) # KeyRowName(rows[i - 1])}

\* one Key per maximal run, for the table c of the catalog
Runs(c, rows) ==
    LET starts == Ascending(RunStarts(rows))
    IN  [k \in DOMAIN starts |->
            LET a == starts[k]
                b == IF k < Len(starts) THEN starts[k + 1] - 1 ELSE Len(rows)
            IN  [name |-> KeyRowName(rows[a]),
                 unique |-> KeyRowUnique(rows[a]),
                 columns |-> [i \in 1..(b - a + 1) |->
                                PositionIn(c.columns, KeyRowColumn(rows[a + i - 1])) - 1]]]

\* the key rows the key lister of the table under construction has taken so far
KeyRowsTaken ==
    IF stack # <<>> /\ Top.handler = "key_lister" THEN Top.delivered ELSE popped[1].delivered

\* C16: the key lister makes one Key per maximal run of rows with the same key
\* name, with the unique flag of the run's first row and the run's column indices
\* in arrival order, so one Key per key name when the rows of each key are
\* consecutive; MySQL's PRIMARY rows make no Key and go to primary_key_columns.
C16_OneKeyPerRun ==
    ((stack # <<>> /\ Top.handler = "key_lister")
        \/ (lister_pc = "finish" /\ popped # <<>> /\ popped[1].handler = "key_lister")) =>
        LET c == CatalogTable(table.name)
            rows == OtherRows(KeyRowsTaken)
        IN  /\ table.keys = Runs(c, rows)
            /\ Consecutive(rows) =>
                    /\ Len(table.keys) = Cardinality({KeyRowName(rows[i]) : i \in DOMAIN rows})
                    /\ Injective([i \in DOMAIN table.keys |-> table.keys[i].name])
            /\ engine = "mysql" =>
                    table.primary_key_columns =
                        [i \in DOMAIN PrimaryRows(KeyRowsTaken) |->
                            PositionIn(c.columns, KeyRowColumn(PrimaryRows(KeyRowsTaken)[i])) - 1]

C16_TwoRunsListed ==
    /\ catalog = <<SessionsTable>>
    /\ lister_pc = "finish"
    /\ popped # <<>>
    /\ popped[1].handler = "key_lister"
    /\ Len(popped[1].delivered) = 3
    /\ Consecutive(popped[1].delivered)
    /\ table.keys = <<[name |-> "idx_a", unique |-> TRUE, columns |-> <<0>>],
                      [name |-> "idx_b", unique |-> TRUE, columns |-> <<1, 2>>]>>

TableNames(tables) == [i \in DOMAIN tables |-> tables[i].name]

\* C17: database.tables grows only at its end, by the table of the row the table
\* lister is working on, so it follows the rows of the table enumeration in their
\* order, and after population it holds one Table per row: none dropped, repeated
\* or moved.
C17_TablesInArrivalOrder ==
    /\ [](/\ IsPrefix(TableNames(database.tables), TableNames(catalog))
          /\ database.indexed => TableNames(database.tables) = TableNames(catalog))
    /\ [][database.tables' # database.tables =>
            (/\ Len(stack) = 1
             /\ Top.handler = "table_lister"
             /\ Len(database.tables') = Len(database.tables) + 1
             /\ SubSeq(database.tables', 1, Len(database.tables)) = database.tables
             /\ <<database.tables'[Len(database.tables')].name>>
                    = Top.delivered[Len(Top.delivered)]
             /\ Len(database.tables') = Len(Top.delivered))]_vars

C17_TwoTablesListed ==
    /\ catalog = <<SessionsTable, OrdersTable>>
    /\ database.indexed
    /\ pc = "ready"
    /\ TableNames(database.tables) = <<"sessions", "orders">>

\* C18: no two Key entries of a listed table have the same name, in whatever order
\* the engine returned the rows of the table's key query.
C18_KeyNamesDistinct ==
    \A i \in DOMAIN database.tables :
        Injective([k \in DOMAIN Listed(i).keys |-> Listed(i).keys[k].name])

\* the names of the unique keys of c with a column that permits NULL
NullableUniqueKeyNames(c) ==
    {k.name : k \in {u \in Range(c.keys) : u.unique /\ HasNullableColumn(c, u)}}

\* C19: every table is listed from a fresh Table and a fresh key lister: the table
\* lister starts a table without columns, keys or primary-key columns, the key query
\* starts with an empty unique-but-nullable set that only takes names of keys of the
\* table itself, so a table is refused or given a surrogate key by its own catalog
\* alone, whatever tables were listed before it.
C19_ListerStatePerTable ==
    /\ [](/\ lister_pc \in {"columns"} => table = Table(table.name)
          /\ (lister_pc = "finish" \/ (stack # <<>> /\ Top.handler = "key_lister")) =>
                unique_but_nullable_keys \subseteq NullableUniqueKeyNames(CatalogTable(table.name))
          /\ \A i \in DOMAIN database.tables :
                /\ (Source(i).pk = <<>>) = (chosen_key[i] # "")
                /\ chosen_key[i] # "" =>
                        chosen_key[i] \in {k.name : k \in UsableKeys(Source(i))}
          /\ IsSchemaError(error) => Unusable(CatalogTable(error[2])))
    /\ [][(lister_pc = "keys" /\ lister_pc' = "finish") => unique_but_nullable_keys' = {}]_vars

C19_SameKeyNameInNextTable ==
    /\ catalog = <<SessionsTable, DevicesTable>>
    /\ database.indexed
    /\ chosen_key = <<"idx_b", "idx_a">>
    /\ database.tables[2].primary_key_columns = <<0>>

\* C20: after disable_referential_integrity and then enable_referential_integrity
\* the session enforces what it enforced before the disable.
C20_ReferentialIntegrityRoundTrip ==
    pc = "integrity_enabled" => <<Enforcement(server)>> = before_disable

====
